---- MODULE Spec2Model ----
(***************************************************************************)
(* Model of export.py: the DepthKornia preprocessing wrapper and the       *)
(* export pipeline (key resolution, network acquisition, optional weight   *)
(* load, tracing, best-effort mobile optimization, serialization).         *)
(***************************************************************************)
EXTENDS Integers, Sequences, FiniteSets, TLC

VARIABLES
    pc,         \* position of the process in export.py
    model_key,  \* --model argument (a string, as a sequence of characters)
    weights,    \* --weights argument: None, "" or a path
    wfile,      \* object stored in the weights file (or Unreadable)
    size,       \* --size argument
    hub_key,    \* architecture identifier handed to torch.hub.load
    net,        \* the acquired network
    model,      \* the DepthKornia wrapper around the network
    ts,         \* the traced (then possibly optimized) graph
    optResult,  \* how the mobile-optimizer stage ended
    outFile,    \* what exists at the --out path
    stderr,     \* messages printed on the error stream
    stdout,     \* messages printed on the output stream
    exitCode,   \* process exit status once terminated
    trail,      \* stages entered so far, in order
    fpc,        \* wrapper study: position
    fx,         \* wrapper study: the input tensor
    fnet,       \* wrapper study: the wrapped network
    fsize,      \* wrapper study: the target resolution
    fgraph,     \* wrapper study: graph captured by tracing
    fy,         \* wrapper study: result of DepthKornia.forward on fx
    gy          \* wrapper study: result of the captured graph on fx

pvars == <<pc, model_key, weights, wfile, size, hub_key, net, model, ts,
           optResult, outFile, stderr, stdout, exitCode, trail>>
fvars == <<fpc, fx, fnet, fsize, fgraph, fy, gy>>
vars == <<pvars, fvars>>

None == "None"

(***************************************************************************)
(* Bounds of the model.                                                    *)
(***************************************************************************)
\* length of the prefix of a base string whose case is flipped in a --model input
MaxFlip == 2
\* number of elements of a tensor that differ from its fill value
MaxSpecial == 1
\* largest --size drawn
MaxSize == 1
\* largest height of an input image, and largest target resolution of the wrapper
MaxDim == 2

(***************************************************************************)
(* Strings are sequences of one-character strings; str.lower() maps the    *)
(* upper-case ASCII letters to lower case and leaves other characters.     *)
(***************************************************************************)
UpperChars == <<"A","B","C","D","E","F","G","H","I","J","K","L","M",
                "N","O","P","Q","R","S","T","U","V","W","X","Y","Z">>
LowerChars == <<"a","b","c","d","e","f","g","h","i","j","k","l","m",
                "n","o","p","q","r","s","t","u","v","w","x","y","z">>

LowerChar(c) ==
    IF \E i \in DOMAIN UpperChars : UpperChars[i] = c
    THEN LowerChars[CHOOSE i \in DOMAIN UpperChars : UpperChars[i] = c]
    ELSE c

UpperChar(c) ==
    IF \E i \in DOMAIN LowerChars : LowerChars[i] = c
    THEN UpperChars[CHOOSE i \in DOMAIN LowerChars : LowerChars[i] = c]
    ELSE c

FlipChar(c) == IF LowerChar(c) # c THEN LowerChar(c) ELSE UpperChar(c)

Lower(s) == [i \in DOMAIN s |-> LowerChar(s[i])]

KeyMidasSmall == <<"m","i","d","a","s","_","s","m","a","l","l">>
KeySwin2Tiny == <<"d","p","t","_","s","w","i","n","2","_","t","i","n","y","_","2","5","6">>
KeyLevit == <<"d","p","t","_","l","e","v","i","t","_","2","2","4">>
KeyV21Small == <<"m","i","d","a","s","_","v","2","1","_","s","m","a","l","l","_","2","5","6">>

ModelKeys == {KeyMidasSmall, KeySwin2Tiny, KeyLevit, KeyV21Small}

MODEL_KEY_MAP ==
    [k \in ModelKeys |->
        CASE k = KeyMidasSmall -> "MiDaS_small"
          [] k = KeySwin2Tiny -> "DPT_Swin2_Tiny_256"
          [] k = KeyLevit -> "DPT_LeViT_224"
          [] k = KeyV21Small -> "MiDaS_small"]

\* MODEL_KEY_MAP.get(model_key.lower()): the mapped identifier, or None
HubKeyExact(s) ==
    IF s \in DOMAIN MODEL_KEY_MAP THEN MODEL_KEY_MAP[s] ELSE None

HubKeyOf(s) ==
    IF Lower(s) \in DOMAIN MODEL_KEY_MAP THEN MODEL_KEY_MAP[Lower(s)] ELSE None

\* strings that are not keys: "notamodel", "", "midas", "midas-small",
\* "midas_small " and the architecture identifier "DPT_LeViT_224" itself
OtherStrings ==
    { <<"n","o","t","a","m","o","d","e","l">>,
      <<>>,
      <<"m","i","d","a","s">>,
      <<"m","i","d","a","s","-","s","m","a","l","l">>,
      <<"m","i","d","a","s","_","s","m","a","l","l"," ">>,
      <<"D","P","T","_","L","e","V","i","T","_","2","2","4">> }

FlipAt(s, P) == [i \in DOMAIN s |-> IF i \in P THEN FlipChar(s[i]) ELSE s[i]]

UpperAll(s) == [i \in DOMAIN s |-> UpperChar(s[i])]

\* the --model inputs drawn: every base string, all upper case, and with the
\* case of a prefix of at most MaxFlip characters flipped
ModelInputs ==
    UNION { {FlipAt(b, 1..n) : n \in 0..MaxFlip} \cup {UpperAll(b)}
            : b \in ModelKeys \cup OtherStrings }

(***************************************************************************)
(* Python objects a weights file can hold: a tensor, a dict from names to  *)
(* objects, or anything else (a list, a pickled module).                   *)
(***************************************************************************)
Tensor(shape, val) == [t |-> "tensor", shape |-> shape, val |-> val, d |-> <<>>]
Dict(d) == [t |-> "dict", shape |-> 0, val |-> 0, d |-> d]
Other == [t |-> "other", shape |-> 0, val |-> 0, d |-> <<>>]
NoFile == [t |-> "nofile", shape |-> 0, val |-> 0, d |-> <<>>]
Unreadable == [t |-> "unreadable", shape |-> 0, val |-> 0, d |-> <<>>]

\* parameter names of the architectures, and names a file can use
NetParams == {"w", "b"}
FileNames == {"w", "extra", "state_dict"}

\* shape 1 is the shape the architecture declares; value 0 is the random
\* initialisation of pretrained=False, value 1 a value stored in a file
FreshParams == [n \in NetParams |-> Tensor(1, 0)]
FileTensors(n) == IF n \in NetParams THEN {Tensor(1, 1), Tensor(2, 1)} ELSE {Tensor(1, 1)}

StateMaps ==
    UNION { {M \in [D -> {Tensor(1, 1), Tensor(2, 1)}] : \A n \in D : M[n] \in FileTensors(n)}
            : D \in SUBSET FileNames }

Wrapped(M) == Dict([k \in {"state_dict"} |-> Dict(M)])

WeightFiles ==
    {Dict(M) : M \in StateMaps} \cup {Wrapped(M) : M \in StateMaps} \cup {Other}

\* lines 87-88: some weights wrap state in 'state_dict'
UnwrapNever(sd) == sd

Unwrap(sd) ==
    IF sd.t = "dict" /\ "state_dict" \in DOMAIN sd.d THEN sd.d["state_dict"] ELSE sd

\* nn.Module.load_state_dict(sd, strict): a non-mapping raises TypeError before
\* anything is copied; a parameter present with the declared shape is copied; a
\* parameter present with another shape (or not a tensor) is an error message;
\* missing and unexpected names are error messages only when strict; any error
\* message raises RuntimeError after the copying.
LoadStateDictWith(params, sd, strict) ==
    IF sd.t # "dict"
    THEN [params |-> params, raised |-> TRUE]
    ELSE LET fits(n) == /\ n \in DOMAIN sd.d
                        /\ sd.d[n].t = "tensor"
                        /\ sd.d[n].shape = params[n].shape
             clash(n) == n \in DOMAIN sd.d /\ ~fits(n)
             names == \/ \E n \in DOMAIN params : n \notin DOMAIN sd.d
                      \/ \E n \in DOMAIN sd.d : n \notin DOMAIN params
         IN [params |-> [n \in DOMAIN params |->
                            IF fits(n) THEN sd.d[n] ELSE params[n]],
             raised |-> \/ \E n \in DOMAIN params : clash(n)
                        \/ (strict /\ names)]

LoadStateDictStrict(params, sd) == LoadStateDictWith(params, sd, TRUE)

\* line 90: net.load_state_dict(sd, strict=False)
LoadStateDict(params, sd) == LoadStateDictWith(params, sd, FALSE)

\* the names of sd and of the architecture differ (missing or unexpected names)
NameMismatch(params, sd) ==
    /\ sd.t = "dict"
    /\ DOMAIN sd.d # DOMAIN params

(***************************************************************************)
(* Tensor elements.  A number is m * 2^e (divided by 255 when q); the      *)
(* other elements are NaN and the two infinities.                          *)
(***************************************************************************)
Num(m, e) == [k |-> "num", m |-> m, e |-> e, q |-> FALSE]
NaN == [k |-> "nan", m |-> 0, e |-> 0, q |-> FALSE]
PosInf == [k |-> "inf", m |-> 1, e |-> 0, q |-> FALSE]
NegInf == [k |-> "inf", m |-> -1, e |-> 0, q |-> FALSE]

Abs(n) == IF n < 0 THEN -n ELSE n

\* number of binary digits of |m|
Bits(m) ==
    IF m = 0 THEN 0
    ELSE CHOOSE b \in 1..31 : 2^(b - 1) <= Abs(m) /\ (b = 31 \/ Abs(m) < 2^b)

\* a < b for two numbers
Less(a, b) ==
    LET d == a.e - b.e
    IN IF d >= 0
       THEN IF a.m = 0 THEN 0 < b.m
            ELSE IF Bits(a.m) + d > 31 THEN a.m < 0
            ELSE a.m * 2^d < b.m
       ELSE IF b.m = 0 THEN a.m < 0
            ELSE IF Bits(b.m) - d > 31 THEN b.m > 0
            ELSE a.m < b.m * 2^(-d)

IsFinite(v) == v.k = "num"

\* Tensor.float(): IEEE-754 binary32 keeps 24 significant bits (round to
\* nearest, ties to even) and overflows to infinity from 2^128 on
ToFloat32(v) ==
    IF v.k # "num" THEN v
    ELSE LET s == IF Bits(v.m) > 24 THEN Bits(v.m) - 24 ELSE 0
             a == Abs(v.m)
             quo == a \div 2^s
             rem == a % 2^s
             up == s > 0 /\ (2 * rem > 2^s \/ (2 * rem = 2^s /\ quo % 2 = 1))
             mag == IF up THEN quo + 1 ELSE quo
             m == IF v.m < 0 THEN -mag ELSE mag
         IN IF m # 0 /\ Bits(m) - 1 + v.e + s >= 128
            THEN (IF m < 0 THEN NegInf ELSE PosInf)
            ELSE Num(m, v.e + s)

\* v / 255.0
Div255(v) ==
    IF v.k = "num" /\ v.m # 0 THEN [v EXCEPT !.q = TRUE] ELSE v

(***************************************************************************)
(* Tensors: a dtype, a shape and the elements in row-major order.          *)
(***************************************************************************)
Half == Num(1, -1)
One == Num(1, 0)
Float32Vals == {Num(0, 0), Half, One, Num(255, 0), NaN, PosInf}
\* 1 + 2^-30 and 2^128 are binary64 numbers that binary32 does not have
Float64Vals == {Num(0, 0), One, Num(255, 0), NaN, Num(2^30 + 1, -30), Num(1, 128)}
Uint8Vals == {Num(0, 0), One, Num(255, 0)}
Int64Vals == {Num(-1, 0), One, Num(2^24 + 1, 0)}
\* torch.randn draws finite binary32 numbers
RandnVals == {Num(-1, -1), Half, Num(1, 1)}

RECURSIVE Prod(_)
Prod(shape) == IF shape = <<>> THEN 1 ELSE Head(shape) * Prod(Tail(shape))

Min(a, b) == IF a < b THEN a ELSE b

\* tensors whose elements equal a fill value except for a prefix of at most
\* MaxSpecial elements
TensorsOf(dtype, shape, V) ==
    { [dtype |-> dtype, shape |-> shape,
       vals |-> [i \in 1..Prod(shape) |-> IF i <= Len(sp) THEN sp[i] ELSE fill]]
      : fill \in V,
        sp \in UNION {[1..n -> V] : n \in 0..Min(MaxSpecial, Prod(shape))} }

ImageShapes == {<<1, 3, h, 1>> : h \in 1..MaxDim}

InputTensors ==
    UNION { TensorsOf("float32", sh, Float32Vals) \cup TensorsOf("float64", sh, Float64Vals)
            \cup TensorsOf("uint8", sh, Uint8Vals) \cup TensorsOf("int64", sh, Int64Vals)
            : sh \in ImageShapes }

\* line 102: example = torch.randn(1, 3, size, size)
Examples(sz) == TensorsOf("float32", <<1, 3, sz, sz>>, RandnVals)

Elems(x) == {x.vals[i] : i \in DOMAIN x.vals}

\* torch.isfinite(x).all()
IsFiniteAll(x) == \A v \in Elems(x) : IsFinite(v)

\* x.max(), of a tensor of numbers
TensorMax(x) == CHOOSE v \in Elems(x) : \A w \in Elems(x) : ~Less(v, w)

\* x.float()
ToFloat(x) ==
    [x EXCEPT !.dtype = "float32", !.vals = [i \in DOMAIN x.vals |-> ToFloat32(x.vals[i])]]

\* x / 255.0: an integer tensor is promoted to the default float type
Div255All(x) ==
    LET f == IF x.dtype \in {"uint8", "int64"} THEN ToFloat(x) ELSE x
    IN [f EXCEPT !.vals = [i \in DOMAIN f.vals |-> Div255(f.vals[i])]]

(***************************************************************************)
(* DepthKornia.forward.  The wrapped network is opaque: only the rank of   *)
(* its output is modelled, (1, h, w) or (1, 1, h, w).                       *)
(***************************************************************************)
\* lines 64-65
NormDtype(x) == IF x.dtype # "float32" THEN ToFloat(x) ELSE x

\* lines 66-67
ShouldDivideGe(x) == IsFiniteAll(x) /\ ~Less(TensorMax(x), One)

ShouldDivide(x) == IsFiniteAll(x) /\ Less(One, TensorMax(x))

NormRange(x) == IF ShouldDivide(x) THEN Div255All(x) ELSE x

\* lines 68-70: K.geometry.resize(x, (in_h, in_w)); line 71 keeps the shape
ResizeShape(shape, in_h, in_w) == <<shape[1], shape[2], in_h, in_w>>

\* line 72: y = self.net(x)
NetOutShape(rank, shape) ==
    IF rank = 3 THEN <<shape[1], shape[3], shape[4]>>
    ELSE <<shape[1], 1, shape[3], shape[4]>>

\* y.unsqueeze(dim), dim counted from 0
UnsqueezeAt(shape, dim) ==
    [i \in 1..(Len(shape) + 1) |->
        IF i <= dim THEN shape[i] ELSE IF i = dim + 1 THEN 1 ELSE shape[i - 1]]

\* lines 73-75
NormRankLast(shape) == IF Len(shape) = 3 THEN UnsqueezeAt(shape, 3) ELSE shape

NormRank(shape) == IF Len(shape) = 3 THEN UnsqueezeAt(shape, 1) ELSE shape

\* forward(x): the normalized tensor handed to the resize, the shape of the
\* result, and the tensor operations executed, in order
Forward(x, rank, in_h, in_w) ==
    LET x1 == NormDtype(x)
        x2 == NormRange(x1)
        ys == NetOutShape(rank, ResizeShape(x2.shape, in_h, in_w))
    IN [pre |-> x2,
        shape |-> NormRank(ys),
        ops |-> (IF x.dtype # "float32" THEN <<"float">> ELSE <<>>)
                \o (IF ShouldDivide(x1) THEN <<"div255">> ELSE <<>>)
                \o <<"resize", "standardize", "net">>
                \o (IF Len(ys) = 3 THEN <<"unsqueeze1">> ELSE <<>>)]

NoGraph == [valid |-> FALSE, ops |-> <<>>, rank |-> 0, in_h |-> 0, in_w |-> 0,
            params |-> FreshParams, optimized |-> FALSE]

\* line 104: torch.jit.trace(model, example, check_trace=False) runs forward once
\* on the example and keeps the tensor operations that run executed
TraceGraph(m, example) ==
    [valid |-> TRUE,
     ops |-> Forward(example, m.rank, m.in_h, m.in_w).ops,
     rank |-> m.rank, in_h |-> m.in_h, in_w |-> m.in_w,
     params |-> m.params, optimized |-> FALSE]

\* one recorded operation applied to the running tensor and shape
ApplyOp(op, g, st) ==
    CASE op = "float" -> [st EXCEPT !.x = ToFloat(st.x)]
      [] op = "div255" -> [st EXCEPT !.x = Div255All(st.x)]
      [] op = "resize" -> [st EXCEPT !.shape = ResizeShape(st.x.shape, g.in_h, g.in_w)]
      [] op = "standardize" -> st
      [] op = "net" -> [st EXCEPT !.shape = NetOutShape(g.rank, st.shape)]
      [] op = "unsqueeze1" -> [st EXCEPT !.shape = UnsqueezeAt(st.shape, 1)]

RECURSIVE ApplyOps(_, _, _)
ApplyOps(ops, g, st) ==
    IF ops = <<>> THEN st ELSE ApplyOps(Tail(ops), g, ApplyOp(Head(ops), g, st))

\* the captured graph run on x: the recorded operations, whatever x is
RunGraph(g, x) ==
    LET st == ApplyOps(g.ops, g, [x |-> x, shape |-> x.shape])
    IN [pre |-> st.x, shape |-> st.shape, ops |-> g.ops]

(***************************************************************************)
(* The export process.                                                     *)
(***************************************************************************)
NoNet == [valid |-> FALSE, arch |-> None, rank |-> 0, params |-> FreshParams,
          training |-> FALSE]
NoModel == [valid |-> FALSE, rank |-> 0, in_h |-> 0, in_w |-> 0,
            params |-> FreshParams]
NoOutput == [state |-> "absent", graph |-> NoGraph]

Msg(kind, at) ==
    [msg |-> kind, at |-> at,
     choices |-> IF kind = "unknown_model" THEN DOMAIN MODEL_KEY_MAP ELSE {}]

\* bool(weights) of "if weights:"
Truthy(w) == w # None /\ w # ""

\* sys.exit(code) after a message on the error stream
Exit(code, kind, at) ==
    /\ pc' = "exited"
    /\ exitCode' = code
    /\ stderr' = Append(stderr, Msg(kind, at))

\* an exception nothing catches: traceback, exit status 1
Crash(at) == Exit(1, "traceback", at)

Init ==
    /\ pc = "boot"
    /\ model_key = <<>>
    /\ weights = None
    /\ wfile = NoFile
    /\ size = 0
    /\ hub_key = None
    /\ net = NoNet
    /\ model = NoModel
    /\ ts = NoGraph
    /\ optResult = "none"
    /\ outFile = NoOutput
    /\ stderr = <<>>
    /\ stdout = <<>>
    /\ exitCode = None
    /\ trail = <<>>
    /\ fpc = "off"
    /\ fx = [dtype |-> "float32", shape |-> <<>>, vals |-> <<>>]
    /\ fnet = 0
    /\ fsize = 0
    /\ fgraph = NoGraph
    /\ fy = [pre |-> [dtype |-> "float32", shape |-> <<>>, vals |-> <<>>],
             shape |-> <<>>, ops |-> <<>>]
    /\ gy = [pre |-> [dtype |-> "float32", shape |-> <<>>, vals |-> <<>>],
             shape |-> <<>>, ops |-> <<>>]

\* lines 25-38: the numpy version gate and the kornia import
Boot ==
    /\ pc = "boot"
    /\ \E env \in {"ok", "no_numpy", "numpy2", "no_kornia"} :
        CASE env = "numpy2" -> Exit(1, "numpy2", "boot")
          [] env = "no_kornia" -> Exit(1, "kornia_required", "boot")
          [] OTHER -> pc' = "main" /\ UNCHANGED <<exitCode, stderr>>
    /\ UNCHANGED <<model_key, weights, wfile, size, hub_key, net, model, ts,
                   optResult, outFile, stdout, trail, fvars>>

\* lines 116-123 and 127: the arguments, and the weights file they name
ParseArgs ==
    /\ pc = "main"
    /\ \/ /\ model_key' \in ModelInputs
          /\ size' \in 0..MaxSize
          /\ \/ weights' \in {None, ""} /\ wfile' = NoFile
             \/ weights' = "w.pt" /\ wfile' \in WeightFiles \cup {Unreadable}
          /\ pc' = "export"
          /\ UNCHANGED <<exitCode, stderr>>
       \/ /\ Exit(2, "usage", "main")
          /\ UNCHANGED <<model_key, size, weights, wfile>>
    /\ UNCHANGED <<hub_key, net, model, ts, optResult, outFile, stdout, trail, fvars>>

\* lines 79-82: without the sys.exit(2)
ResolveKeyNoExit ==
    /\ pc = "export"
    /\ hub_key' = HubKeyOf(model_key)
    /\ trail' = Append(trail, "resolve")
    /\ pc' = "resolved"
    /\ stderr' = IF hub_key' = None
                 THEN Append(stderr, Msg("unknown_model", "resolve")) ELSE stderr
    /\ UNCHANGED <<model_key, weights, wfile, size, net, model, ts, optResult,
                   outFile, stdout, exitCode, fvars>>

\* lines 79-82
ResolveKey ==
    /\ pc = "export"
    /\ hub_key' = HubKeyOf(model_key)
    /\ trail' = Append(trail, "resolve")
    /\ IF hub_key' = None
       THEN Exit(2, "unknown_model", "resolve")
       ELSE pc' = "resolved" /\ UNCHANGED <<exitCode, stderr>>
    /\ UNCHANGED <<model_key, weights, wfile, size, net, model, ts, optResult,
                   outFile, stdout, fvars>>

\* line 83: a failed fetch is tried again
HubLoadRetry ==
    /\ pc = "resolved"
    /\ trail' = Append(trail, "fetch")
    /\ \/ /\ \E r \in {3, 4} :
               net' = [valid |-> TRUE, arch |-> hub_key, rank |-> r,
                       params |-> FreshParams, training |-> TRUE]
          /\ pc' = "fetched"
       \/ UNCHANGED <<net, pc>>
    /\ UNCHANGED <<model_key, weights, wfile, size, hub_key, model, ts, optResult,
                   outFile, stdout, exitCode, stderr, fvars>>

\* line 83: torch.hub.load(..., pretrained=False)
HubLoad ==
    /\ pc = "resolved"
    /\ trail' = Append(trail, "fetch")
    /\ \/ /\ \E r \in {3, 4} :
               net' = [valid |-> TRUE, arch |-> hub_key, rank |-> r,
                       params |-> FreshParams, training |-> TRUE]
          /\ pc' = "fetched"
          /\ UNCHANGED <<exitCode, stderr>>
       \/ Crash("fetch") /\ UNCHANGED net
    /\ UNCHANGED <<model_key, weights, wfile, size, hub_key, model, ts, optResult,
                   outFile, stdout, fvars>>

\* lines 84-85: torch.load(weights)
TorchLoad ==
    /\ pc = "fetched"
    /\ Truthy(weights)
    /\ trail' = Append(trail, "read_weights")
    /\ IF wfile = Unreadable
       THEN Crash("read_weights")
       ELSE pc' = "read" /\ UNCHANGED <<exitCode, stderr>>
    /\ UNCHANGED <<model_key, weights, wfile, size, hub_key, net, model, ts,
                   optResult, outFile, stdout, fvars>>

\* lines 86-92: unwrap, load non-strictly, warn if the load raised
LoadWeights ==
    /\ pc = "read"
    /\ trail' = Append(trail, "load_state")
    /\ LET r == LoadStateDict(net.params, Unwrap(wfile))
       IN /\ net' = [net EXCEPT !.params = r.params]
          /\ stderr' = IF r.raised
                       THEN Append(stderr, Msg("load_warning", "load_state"))
                       ELSE stderr
    /\ pc' = "loaded"
    /\ UNCHANGED <<model_key, weights, wfile, size, hub_key, model, ts, optResult,
                   outFile, stdout, exitCode, fvars>>

\* lines 84-94: the "if weights:" block is skipped
NetEvalSkipWeights ==
    /\ pc \in {"loaded", "fetched"}
    /\ net' = [net EXCEPT !.training = FALSE]
    /\ pc' = "acquired"
    /\ UNCHANGED <<model_key, weights, wfile, size, hub_key, model, ts, optResult,
                   outFile, stdout, exitCode, stderr, trail, fvars>>

\* lines 93-94: net.eval(); return net
NetEval ==
    /\ \/ pc = "loaded"
       \/ pc = "fetched" /\ ~Truthy(weights)
    /\ net' = [net EXCEPT !.training = FALSE]
    /\ pc' = "acquired"
    /\ UNCHANGED <<model_key, weights, wfile, size, hub_key, model, ts, optResult,
                   outFile, stdout, exitCode, stderr, trail, fvars>>

\* line 99: DepthKornia(base, size, size).eval()
Wrap ==
    /\ pc = "acquired"
    /\ trail' = Append(trail, "wrap")
    /\ model' = [valid |-> TRUE, rank |-> net.rank, in_h |-> size, in_w |-> size,
                 params |-> net.params]
    /\ pc' = "wrapped"
    /\ UNCHANGED <<model_key, weights, wfile, size, hub_key, net, ts, optResult,
                   outFile, stdout, exitCode, stderr, fvars>>

\* lines 102-104: trace the wrapper on a random example; an empty example
\* (size 0) has no maximum and the run of forward raises, as may the network
Trace ==
    /\ pc = "wrapped"
    /\ trail' = Append(trail, "trace")
    /\ \/ /\ size >= 1
          /\ \E example \in Examples(size) : ts' = TraceGraph(model, example)
          /\ pc' = "traced"
          /\ UNCHANGED <<exitCode, stderr>>
       \/ Crash("trace") /\ UNCHANGED ts
    /\ UNCHANGED <<model_key, weights, wfile, size, hub_key, net, model, optResult,
                   outFile, stdout, fvars>>

\* lines 106-110: an exception of the optimizer leaves the try block
OptimizeFatal ==
    /\ pc = "traced"
    /\ trail' = Append(trail, "optimize")
    /\ \/ /\ optResult' = "ok"
          /\ ts' = [ts EXCEPT !.optimized = TRUE]
          /\ pc' = "optimized"
          /\ UNCHANGED <<exitCode, stderr>>
       \/ /\ optResult' \in {"import_error", "raised"}
          /\ Crash("optimize")
          /\ UNCHANGED ts
    /\ UNCHANGED <<model_key, weights, wfile, size, hub_key, net, model, outFile,
                   stdout, fvars>>

\* lines 106-110: optimize_for_mobile, best effort
Optimize ==
    /\ pc = "traced"
    /\ trail' = Append(trail, "optimize")
    /\ \/ /\ optResult' = "ok"
          /\ ts' = [ts EXCEPT !.optimized = TRUE]
       \/ /\ optResult' \in {"import_error", "raised"}
          /\ UNCHANGED ts
    /\ pc' = "optimized"
    /\ UNCHANGED <<model_key, weights, wfile, size, hub_key, net, model, outFile,
                   stdout, exitCode, stderr, fvars>>

\* lines 112-113: ts._save_for_lite_interpreter(out_path) opens the file and
\* then writes it; a write that raises leaves no file or an incomplete one
Save ==
    /\ pc = "optimized"
    /\ trail' = Append(trail, "save")
    /\ \/ /\ outFile' = [state |-> "complete", graph |-> ts]
          /\ stdout' = Append(stdout, "Wrote")
          /\ pc' = "done"
          /\ exitCode' = 0
          /\ UNCHANGED stderr
       \/ /\ outFile' \in {NoOutput, [state |-> "partial", graph |-> NoGraph]}
          /\ Crash("save")
          /\ UNCHANGED stdout
    /\ UNCHANGED <<model_key, weights, wfile, size, hub_key, net, model, ts,
                   optResult, fvars>>

Next ==
    \/ Boot
    \/ ParseArgs
    \/ ResolveKey
    \/ HubLoad
    \/ TorchLoad
    \/ LoadWeights
    \/ NetEval
    \/ Wrap
    \/ Trace
    \/ Optimize
    \/ Save

Spec == Init /\ [][Next]_vars

(***************************************************************************)
(* The wrapper by itself: forward applied to an input tensor, and the      *)
(* graph that tracing captures applied to the same tensor.                 *)
(***************************************************************************)
NotRun == [pre |-> [dtype |-> "float32", shape |-> <<>>, vals |-> <<>>],
           shape |-> <<>>, ops |-> <<>>]

InitFwd ==
    /\ pc = "boot"
    /\ model_key = <<>>
    /\ weights = None
    /\ wfile = NoFile
    /\ size = 0
    /\ hub_key = None
    /\ net = NoNet
    /\ model = NoModel
    /\ ts = NoGraph
    /\ optResult = "none"
    /\ outFile = NoOutput
    /\ stderr = <<>>
    /\ stdout = <<>>
    /\ exitCode = None
    /\ trail = <<>>
    /\ fpc = "wrapper"
    /\ fx \in InputTensors
    /\ fnet \in {3, 4}
    /\ fsize \in 1..MaxDim
    /\ fgraph = NoGraph
    /\ fy = NotRun
    /\ gy = NotRun

\* lines 61-75: model(x)
FwdForward ==
    /\ fpc = "wrapper"
    /\ fy = NotRun
    /\ fy' = Forward(fx, fnet, fsize, fsize)
    /\ UNCHANGED <<pvars, fpc, fx, fnet, fsize, fgraph, gy>>

\* lines 99-104: the wrapper traced on a random example
FwdTrace ==
    /\ fpc = "wrapper"
    /\ fy # NotRun
    /\ ~fgraph.valid
    /\ \E example \in Examples(fsize) :
         fgraph' = TraceGraph([valid |-> TRUE, rank |-> fnet, in_h |-> fsize,
                               in_w |-> fsize, params |-> FreshParams], example)
    /\ UNCHANGED <<pvars, fpc, fx, fnet, fsize, fy, gy>>

\* the exported artifact invoked on x
FwdRunGraph ==
    /\ fpc = "wrapper"
    /\ fgraph.valid
    /\ gy = NotRun
    /\ gy' = RunGraph(fgraph, fx)
    /\ UNCHANGED <<pvars, fpc, fx, fnet, fsize, fgraph, fy>>

NextFwd ==
    \/ FwdForward
    \/ FwdTrace
    \/ FwdRunGraph

SpecFwd == InitFwd /\ [][NextFwd]_vars

(***************************************************************************)
(* Properties.                                                             *)
(***************************************************************************)
Last(q) == q[Len(q)]
Stages == {trail[i] : i \in DOMAIN trail}
Warned == \E i \in DOMAIN stderr : stderr[i].msg = "load_warning"
KnownKey == Lower(model_key) \in DOMAIN MODEL_KEY_MAP
UnknownModelExit ==
    /\ pc = "exited"
    /\ exitCode = 2
    /\ stderr = <<Msg("unknown_model", "resolve")>>

\* C1: once the key has been resolved, a --model string whose lower-cased form
\* is a key of MODEL_KEY_MAP gives exactly the mapped architecture identifier,
\* which is the one any fetched network was asked for; every other string gives
\* no identifier and ends the run with the UnknownModel exit (status 2).
C1_KeyResolution ==
    trail # <<>> =>
        IF KnownKey
        THEN /\ hub_key = MODEL_KEY_MAP[Lower(model_key)]
             /\ ~UnknownModelExit
             /\ net.valid => net.arch = MODEL_KEY_MAP[Lower(model_key)]
        ELSE /\ hub_key = None
             /\ UnknownModelExit
             /\ ~net.valid

C1_Witness ==
    /\ net.valid
    /\ model_key # Lower(model_key)
    /\ net.arch = "DPT_Swin2_Tiny_256"

\* C2: a run started with a --model key that is not in the mapping ends with
\* exit status 2 after printing the key list, and no later stage happens: no
\* fetch, no weights read, no trace, no output file.
C2_UnknownKeyStopsEverything ==
    (trail # <<>> /\ ~KnownKey) =>
        /\ UnknownModelExit
        /\ stderr[1].choices = ModelKeys
        /\ trail = <<"resolve">>
        /\ ~net.valid
        /\ ~model.valid
        /\ ~ts.valid
        /\ outFile = NoOutput
        /\ stdout = <<>>

C2_Witness ==
    /\ UnknownModelExit
    /\ trail = <<"resolve">>
    /\ model_key = <<"n","o","t","a","m","o","d","e","l">>

\* the stage that must have been entered just before a stage
Before(stage) ==
    CASE stage = "fetch" -> "resolve"
      [] stage = "read_weights" -> "fetch"
      [] stage = "load_state" -> "read_weights"
      [] stage = "wrap" -> IF Truthy(weights) THEN "load_state" ELSE "fetch"
      [] stage = "trace" -> "wrap"
      [] stage = "optimize" -> "trace"
      [] stage = "save" -> "optimize"

\* C3: the stages of a run are entered in the order resolve, fetch, (read and
\* load the weights when given), wrap, trace, optimize, save; each at most once;
\* none before its predecessor completed; and an output file is written only
\* when a traced graph exists for a network acquired under a resolved key.
C3_StageOrder ==
    /\ trail # <<>> => trail[1] = "resolve"
    /\ \A i \in 2..Len(trail) : trail[i - 1] = Before(trail[i])
    /\ \A i, j \in DOMAIN trail : i # j => trail[i] # trail[j]
    /\ "fetch" \in Stages => hub_key # None
    /\ "read_weights" \in Stages => net.valid
    /\ "wrap" \in Stages => net.valid /\ ~net.training
    /\ "trace" \in Stages => model.valid
    /\ "optimize" \in Stages => ts.valid
    /\ "save" \in Stages => optResult # "none"
    /\ outFile.state # "absent" =>
          /\ ts.valid
          /\ net.valid
          /\ hub_key # None
          /\ net.arch = hub_key
          /\ ts.params = net.params
          /\ ts.rank = net.rank
    /\ pc = "done" <=> outFile.state = "complete"

C3_Witness ==
    /\ pc = "done"
    /\ trail = <<"resolve", "fetch", "read_weights", "load_state", "wrap", "trace",
                 "optimize", "save">>

\* C4: the optimizer stage never aborts the export: whether the optimizer is
\* unavailable, raises or succeeds, the run goes on to the save; the traced
\* graph is left unchanged unless the optimizer succeeded, and the graph then
\* held is the one that is serialized.
C4_OptimizerNeverAborts ==
    [][ /\ (pc = "traced" /\ pc' # pc) =>
              /\ pc' = "optimized"
              /\ exitCode' = None
              /\ optResult' \in {"ok", "import_error", "raised"}
              /\ optResult' = "ok" => ts' = [ts EXCEPT !.optimized = TRUE]
              /\ optResult' # "ok" => ts' = ts /\ ~ts'.optimized
        /\ (pc = "optimized" /\ outFile'.state = "complete") =>
              /\ outFile'.graph = ts
              /\ outFile'.graph.optimized <=> optResult = "ok" ]_vars

C4_Witness ==
    /\ pc = "done"
    /\ optResult = "raised"
    /\ outFile.state = "complete"
    /\ ~outFile.graph.optimized

\* load_state_dict raises: the object is not a mapping, or a parameter of the
\* architecture is supplied with another shape
LoadRaises(sd) ==
    \/ sd.t # "dict"
    \/ \E n \in NetParams \cap DOMAIN sd.d :
          sd.d[n].t # "tensor" \/ sd.d[n].shape # FreshParams[n].shape

\* C5 as stated: a weights file whose parameter names do not match the
\* architecture is reported as a warning on the error stream, and the run
\* continues.
C5_MismatchWarned ==
    ("load_state" \in Stages /\ NameMismatch(FreshParams, Unwrap(wfile))) =>
        /\ Warned
        /\ Last(trail) = "load_state" => pc \in {"loaded", "acquired"}

\* C5 amended: a weight load never terminates the run; the warning is printed
\* exactly when load_state_dict raises (not a mapping, or a supplied parameter
\* of another shape), so missing or unexpected names alone are tolerated
\* silently; each parameter then holds the supplied value or its default.
C5_LoadNeverFatal ==
    "load_state" \in Stages =>
        /\ Last(trail) = "load_state" => pc \in {"loaded", "acquired"} /\ exitCode = None
        /\ Warned <=> LoadRaises(Unwrap(wfile))
        /\ \A i \in DOMAIN stderr : stderr[i].at # "load_state" \/ stderr[i].msg = "load_warning"
        /\ \A n \in NetParams :
              \/ net.params[n] = FreshParams[n]
              \/ /\ Unwrap(wfile).t = "dict"
                 /\ n \in DOMAIN Unwrap(wfile).d
                 /\ net.params[n] = Unwrap(wfile).d[n]

C5_Witness ==
    /\ pc = "done"
    /\ NameMismatch(FreshParams, Unwrap(wfile))
    /\ "extra" \in DOMAIN Unwrap(wfile).d
    /\ ~Warned
    /\ net.params["w"] # FreshParams["w"]
    /\ net.params["b"] = FreshParams["b"]

Failed == pc = "exited" /\ exitCode # 0

\* C6 as stated: every failure other than a weight-load mismatch or the
\* optimizer aborts the run at its stage, no stage is attempted twice, a run
\* that fails before the final write completes leaves no output file, and an
\* output file exists only in runs that reached the serialized state.
C6_FailFastNoFile ==
    /\ \A i \in DOMAIN stderr :
          stderr[i].msg = "traceback" => (Failed /\ Last(trail) = stderr[i].at)
    /\ \A i, j \in DOMAIN trail : i # j => trail[i] # trail[j]
    /\ Failed => outFile.state = "absent"
    /\ outFile.state # "absent" => pc = "done"

\* C6 amended: the same, except that the output path is untouched only in runs
\* that fail before the final write starts (a write that fails may leave an
\* incomplete file), and a complete file exists only in runs that reached
\* the serialized state.
C6_FailFastNoFileBeforeWrite ==
    /\ \A i \in DOMAIN stderr :
          stderr[i].msg = "traceback" => (Failed /\ Last(trail) = stderr[i].at)
    /\ \A i, j \in DOMAIN trail : i # j => trail[i] # trail[j]
    /\ (Failed /\ "save" \notin Stages) => outFile.state = "absent"
    /\ outFile.state # "absent" => "save" \in Stages
    /\ outFile.state = "complete" <=> pc = "done"

C6_Witness ==
    /\ Failed
    /\ exitCode = 1
    /\ trail # <<>>
    /\ Last(trail) = "trace"
    /\ outFile.state = "absent"

\* the file holds the state map M under "state_dict" and nothing else
IsWrapped(f) ==
    /\ f.t = "dict"
    /\ DOMAIN f.d = {"state_dict"}
    /\ f.d["state_dict"].t = "dict"

\* the parameters after loading a file that holds obj
LoadedFrom(obj) == LoadStateDict(FreshParams, Unwrap(obj)).params

\* C9 as stated: for every state map M, a file holding M under "state_dict"
\* leaves the network with the same parameters as a file holding M directly.
C9_UnwrapTransparent ==
    ("load_state" \in Stages /\ IsWrapped(wfile)) =>
        net.params = LoadedFrom(wfile.d["state_dict"])

\* C9 amended: the same for every state map M that has no entry named
\* "state_dict" itself.
C9_UnwrapTransparentNoNestedKey ==
    ( /\ "load_state" \in Stages
      /\ IsWrapped(wfile)
      /\ "state_dict" \notin DOMAIN wfile.d["state_dict"].d ) =>
        net.params = LoadedFrom(wfile.d["state_dict"])

C9_Witness ==
    /\ "load_state" \in Stages
    /\ IsWrapped(wfile)
    /\ "state_dict" \notin DOMAIN wfile.d["state_dict"].d
    /\ net.params["w"] = Tensor(1, 1)

\* the input converted to the internal float type, and that divided by 255.0
Converted(x) ==
    [dtype |-> "float32", shape |-> x.shape,
     vals |-> [i \in DOMAIN x.vals |-> ToFloat32(x.vals[i])]]
Divided(x) ==
    [dtype |-> "float32", shape |-> x.shape,
     vals |-> [i \in DOMAIN x.vals |-> Div255(ToFloat32(x.vals[i]))]]
FiniteAboveOne(x) ==
    /\ \A i \in DOMAIN x.vals : x.vals[i].k = "num"
    /\ \E i \in DOMAIN x.vals : Less(One, x.vals[i])

\* C7 as stated: forward divides every element by 255.0 if and only if all
\* elements of the input are finite and its maximum is above 1.0; otherwise
\* the values are unchanged apart from the conversion to float.
C7_RangeNormalization ==
    fy # NotRun =>
        IF FiniteAboveOne(fx) THEN fy.pre = Divided(fx) ELSE fy.pre = Converted(fx)

\* C7 amended: the same with the two tests made on the elements after their
\* conversion to the internal float type (a float64 element above the float32
\* range converts to infinity, one just above 1.0 converts to 1.0).
C7_RangeNormalizationAfterConversion ==
    fy # NotRun =>
        IF FiniteAboveOne(Converted(fx))
        THEN fy.pre = Divided(fx) /\ "div255" \in {fy.ops[i] : i \in DOMAIN fy.ops}
        ELSE fy.pre = Converted(fx) /\ "div255" \notin {fy.ops[i] : i \in DOMAIN fy.ops}

C7_Witness ==
    /\ fy # NotRun
    /\ fx.dtype = "uint8"
    /\ FiniteAboveOne(fx)
    /\ fy.pre.vals[1] = [k |-> "num", m |-> 255, e |-> 0, q |-> TRUE]

\* C8: whether the wrapped network returns (1, h, w) or (1, 1, h, w), the
\* result of forward has rank 4 and channel dimension 1: a rank-3 result gets
\* the channel inserted at position 1, a rank-4 result keeps its shape.
C8_OutputShape ==
    fy # NotRun =>
        /\ Len(fy.shape) = 4
        /\ fy.shape[2] = 1
        /\ fy.shape = <<1, 1, fsize, fsize>>

C8_Witness ==
    /\ fy # NotRun
    /\ fnet = 3
    /\ fy.shape = <<1, 1, 2, 2>>

\* C10: the captured graph behaves on every input like forward on that input:
\* its conversion, division-by-255 and channel-insertion decisions hand the
\* same tensor to the resize and give a result of the same shape.
C10_GraphMatchesForward ==
    (fy # NotRun /\ gy # NotRun) =>
        /\ gy.pre = fy.pre
        /\ gy.shape = fy.shape

====
